---- MODULE Spec2Model ----
(***************************************************************************)
(* Model of the question extractors short.py, long.py and mcqs.py: the     *)
(* text extraction, the multiple-choice extractor, the filename and path   *)
(* helpers and the main() of each script appending rows to its CSV file.   *)
(*                                                                         *)
(* A Python str is a sequence of one-character strings.  The character     *)
(* U+00A0 is written NBSP.  None is the one-element sequence NoneVal.      *)
(***************************************************************************)
EXTENDS Integers, Sequences, FiniteSets, TLC

VARIABLES
  entries,   \* the input directory Chapter12: name -> Missing, Unreadable or a document
  csv,       \* script -> Absent or the lines of csv/9th_class/<script>/biology.csv
  outDirs,   \* the scripts whose output directory csv/9th_class/<script> exists
  fresh,     \* script -> the CSV was absent or empty before the first run
  last,      \* what the latest invocation did
  runs,      \* invocations so far
  ran,       \* the scripts that have run to their end
  lis,       \* ExtractSpec: the <li> children of the row handed to extract_mcqs
  para,      \* TextSpec: the text nodes of the paragraph handed to the extractors
  out        \* ExtractSpec, TextSpec: what the extractors returned, or NotRun

vars == <<entries, csv, outDirs, fresh, last, runs, ran, lis, para, out>>

----------------------------------------------------------------------------
(* Bounds *)

MaxRuns == 2      \* invocations per behaviour
MaxItems == 4     \* <li> children of a multiple-choice row
MaxChars == 4     \* characters of a paragraph, over all its text nodes
MaxNodes == 2     \* text nodes of a paragraph

----------------------------------------------------------------------------
(* Characters and strings *)

NBSP == "nbsp"
NoneVal == <<"None">>
Empty == <<>>

Digits == <<"0", "1", "2", "3", "4", "5", "6", "7", "8", "9">>
Uppers == <<"A", "B", "C", "D", "E", "F", "G", "H", "I", "J", "K", "L", "M",
            "N", "O", "P", "Q", "R", "S", "T", "U", "V", "W", "X", "Y", "Z">>
Lowers == <<"a", "b", "c", "d", "e", "f", "g", "h", "i", "j", "k", "l", "m",
            "n", "o", "p", "q", "r", "s", "t", "u", "v", "w", "x", "y", "z">>

IndexIn(seq, c) == CHOOSE i \in 1..Len(seq) : seq[i] = c
Among(seq, c) == \E i \in 1..Len(seq) : seq[i] = c

\* The code point of a character: str comparison and sorted() compare these.
Ord(c) ==
  IF Among(Digits, c) THEN 47 + IndexIn(Digits, c)
  ELSE IF Among(Uppers, c) THEN 64 + IndexIn(Uppers, c)
  ELSE IF Among(Lowers, c) THEN 96 + IndexIn(Lowers, c)
  ELSE CASE c = "\t" -> 9
         [] c = "\n" -> 10
         [] c = " " -> 32
         [] c = "(" -> 40
         [] c = ")" -> 41
         [] c = "-" -> 45
         [] c = "." -> 46
         [] c = "/" -> 47
         [] c = "?" -> 63
         [] c = "\\" -> 92
         [] c = "_" -> 95
         [] c = NBSP -> 160

IsDigit(c) == Among(Digits, c)

LowerChar(c) == IF Among(Uppers, c) THEN Lowers[IndexIn(Uppers, c)] ELSE c
UpperChar(c) == IF Among(Lowers, c) THEN Uppers[IndexIn(Lowers, c)] ELSE c

\* str.lower(), str.upper()
Lower(s) == [i \in 1..Len(s) |-> LowerChar(s[i])]
Upper(s) == [i \in 1..Len(s) |-> UpperChar(s[i])]

\* s[a:b] with 1-based inclusive positions; empty when a > b.
Slice(s, a, b) == IF a > b THEN <<>> ELSE SubSeq(s, a, b)

\* str.strip(chars): drop the leading and the trailing characters that are in cs.
StripChars(s, cs) ==
  LET keep == {i \in 1..Len(s) : s[i] \notin cs}
  IN IF keep = {} THEN <<>>
     ELSE Slice(s, CHOOSE i \in keep : \A j \in keep : i <= j,
                   CHOOSE i \in keep : \A j \in keep : i >= j)

\* str.rstrip(chars)
RStripChars(s, cs) ==
  LET keep == {i \in 1..Len(s) : s[i] \notin cs}
  IN IF keep = {} THEN <<>>
     ELSE Slice(s, 1, CHOOSE i \in keep : \A j \in keep : i >= j)

\* str.strip()
Strip(s) == StripChars(s, {" ", "\t", "\n", NBSP})

\* str.replace(old, new) for one-character old and new.
Replace(s, old, new) == [i \in 1..Len(s) |-> IF s[i] = old THEN new ELSE s[i]]

\* str.endswith(suffix)
EndsWith(s, suffix) ==
  /\ Len(s) >= Len(suffix)
  /\ Slice(s, Len(s) - Len(suffix) + 1, Len(s)) = suffix

\* s < t in the order of Python str (code point by code point, a prefix first).
StrLess(s, t) ==
  \E k \in 1..(Len(t)) :
     /\ \A j \in 1..(k - 1) : j <= Len(s) /\ s[j] = t[j]
     /\ \/ Len(s) = k - 1
        \/ Len(s) >= k /\ Ord(s[k]) < Ord(t[k])

\* sorted(names) for a set of distinct strings.
RECURSIVE Sorted(_)
Sorted(S) ==
  IF S = {} THEN <<>>
  ELSE LET m == CHOOSE x \in S : \A y \in S \ {x} : StrLess(x, y)
       IN <<m>> \o Sorted(S \ {m})

\* The positions of character c in s.
Positions(s, c) == {i \in 1..Len(s) : s[i] = c}
Min(S) == CHOOSE i \in S : \A j \in S : i <= j
Max(S) == CHOOSE i \in S : \A j \in S : i >= j

----------------------------------------------------------------------------
(* Filename and path helpers *)

\* os.path.basename on POSIX: what follows the last slash.
Basename(p) ==
  IF Positions(p, "/") = {} THEN p ELSE Slice(p, Max(Positions(p, "/")) + 1, Len(p))

\* os.path.splitext(p)[0]: cut at the last dot, unless only dots precede it.
SplitextRoot(p) ==
  LET dots == Positions(p, ".")
  IN IF dots = {} THEN p
     ELSE IF \E i \in 1..(Max(dots) - 1) : p[i] # "." THEN Slice(p, 1, Max(dots) - 1)
     ELSE p

\* base.split(".", 2): at most three parts, cut at the first two dots.
SplitDot2(base) ==
  LET dots == Positions(base, ".")
  IN IF dots = {} THEN <<base>>
     ELSE LET d1 == Min(dots)
              rest == dots \ {d1}
          IN IF rest = {} THEN <<Slice(base, 1, d1 - 1), Slice(base, d1 + 1, Len(base))>>
             ELSE <<Slice(base, 1, d1 - 1),
                    Slice(base, d1 + 1, Min(rest) - 1),
                    Slice(base, Min(rest) + 1, Len(base))>>

\* parse_section_parts(filename)
parse_section_parts(filename) ==
  LET base == SplitextRoot(Basename(filename))
      parts == SplitDot2(base)
  IN IF Len(parts) >= 2
     THEN [section_no |-> parts[1] \o <<".">> \o parts[2],
           section_name |-> IF Len(parts) = 3 THEN parts[3] ELSE Empty]
     ELSE [section_no |-> Empty, section_name |-> base]

Chapter == <<"c", "h", "a", "p", "t", "e", "r">>

\* re.search(r"(chapter\d+)", folder.replace("\\", "/"), flags=re.IGNORECASE):
\* the first place where "chapter" (any case) is followed by a digit, with all
\* the digits that follow; "" without a match.
ChapterNo(folder) ==
  LET s == Replace(folder, "\\", "/")
      hits == {i \in 1..(Len(s) - 7) :
                 /\ Lower(Slice(s, i, i + 6)) = Chapter
                 /\ IsDigit(s[i + 7])}
  IN IF hits = {} THEN Empty
     ELSE LET i == Min(hits)
              stop == {j \in (i + 7)..Len(s) : ~IsDigit(s[j])}
              e == IF stop = {} THEN Len(s) ELSE Min(stop) - 1
          IN Slice(s, i, e)

----------------------------------------------------------------------------
(* Text extraction.  A paragraph is the sequence of its text nodes. *)

\* sep.join(strings)
RECURSIVE Join(_, _)
Join(strings, sep) ==
  IF strings = <<>> THEN <<>>
  ELSE IF Len(strings) = 1 THEN strings[1]
  ELSE strings[1] \o sep \o Join(Tail(strings), sep)

\* The text nodes of p, each stripped, the empty ones dropped.
RECURSIVE StrippedNodes(_)
StrippedNodes(p) ==
  IF p = <<>> THEN <<>>
  ELSE LET s == Strip(p[1])
       IN (IF s = <<>> THEN <<>> ELSE <<s>>) \o StrippedNodes(Tail(p))

\* p.get_text(" ", strip=True)
GetTextStrip(p) == Join(StrippedNodes(p), <<" ">>)

\* select_one: the first match, or no element.
HasMatch(matches) == matches # <<>>

\* PlainText without the replace of U+00A0.
PlainTextNoReplace(matches) ==
  IF HasMatch(matches) THEN GetTextStrip(matches[1]) ELSE Empty

\* (p.get_text(" ", strip=True) if p else "").replace("\xa0", " ")
PlainText(matches) ==
  Replace(IF HasMatch(matches) THEN GetTextStrip(matches[1]) ELSE Empty, NBSP, " ")

\* _clean(text)
Clean(text) == Strip(Replace(text, NBSP, " "))

\* _clean(p.get_text(" ", strip=True) if p else "")
CleanText(matches) ==
  Clean(IF HasMatch(matches) THEN GetTextStrip(matches[1]) ELSE Empty)

\* row.get("id"): the attribute, or None.
GetAttr(attr) == IF attr = <<>> THEN NoneVal ELSE attr[1]

----------------------------------------------------------------------------
(* The extractors.  A document is the sequence of the elements that match   *)
(* "#chooseQuestionsByChapterIDs .TableHover", in document order.  A row is *)
(*   [id  |-> <<>> or <<the id attribute>>,                                 *)
(*    eng |-> the paragraphs matching ".EnglishDiv p",                      *)
(*    urd |-> the paragraphs matching ".UrduDiv p",                         *)
(*    lis |-> the elements matching "ul > li"]                              *)
(* and an <li> is                                                           *)
(*   [spans |-> the text of each <span> under it, in document order,        *)
(*    en |-> the paragraphs matching ".En p", ur |-> those matching ".Ur p",*)
(*    class |-> its classes, thiscorrect |-> <<>> or <<the attribute>>].    *)

\* One record of extract_questions / extract_long_questions.
QuestionOfRow(row) ==
  [id |-> GetAttr(row.id), english |-> PlainText(row.eng), urdu |-> PlainText(row.urd)]

\* extract_questions(html_text), and extract_long_questions, which is the same code
extract_questions(doc) == [i \in 1..Len(doc) |-> QuestionOfRow(doc[i])]

Slots == {<<"A">>, <<"B">>, <<"C">>, <<"D">>}

\* The default option containers.
EmptyOpts == [s \in Slots |-> [en |-> Empty, ur |-> Empty]]

\* The letter of an <li>: "(A)" -> "A"; "" without a span or with an empty one.
LetterOf(li) ==
  IF li.spans # <<>> /\ li.spans[1] # <<>>
  THEN Upper(StripChars(Strip(li.spans[1]), {"(", ")"}))
  ELSE Empty

\* if letter in opts: opts[letter]["en"] = en_txt; opts[letter]["ur"] = ur_txt
OptsAfter(opts, letter, en_txt, ur_txt) ==
  IF letter \in Slots
  THEN [opts EXCEPT ![letter] = [en |-> en_txt, ur |-> ur_txt]]
  ELSE opts

\* re.search(r"-\(([A-D])\)", tc, re.IGNORECASE): the places where it matches.
FallbackHits(tc) ==
  {i \in 1..(Len(tc) - 3) :
     /\ tc[i] = "-"
     /\ tc[i + 1] = "("
     /\ <<UpperChar(tc[i + 2])>> \in Slots
     /\ tc[i + 3] = ")"}

\* CorrectAfter keeping the first letter found instead of the last.
CorrectAfterFirst(correct_letter, li, letter) ==
  IF "correctAnswer" \in li.class /\ correct_letter = Empty
  THEN IF letter # Empty THEN letter
       ELSE LET tc == IF li.thiscorrect = <<>> THEN Empty ELSE li.thiscorrect[1]
            IN IF FallbackHits(tc) # {}
               THEN <<UpperChar(tc[Min(FallbackHits(tc)) + 2])>>
               ELSE correct_letter
  ELSE correct_letter

\* CorrectAfter without the test of the correctAnswer class.
CorrectAfterAny(correct_letter, li, letter) ==
  IF letter # Empty THEN letter ELSE correct_letter

\* correct_letter after an <li>: its letter if it has one, else the letter of
\* its thiscorrect attribute if that matches, else what it was.
CorrectAfter(correct_letter, li, letter) ==
  IF "correctAnswer" \in li.class
  THEN IF letter # Empty THEN letter
       ELSE LET tc == IF li.thiscorrect = <<>> THEN Empty ELSE li.thiscorrect[1]
            IN IF FallbackHits(tc) # {}
               THEN <<UpperChar(tc[Min(FallbackHits(tc)) + 2])>>
               ELSE correct_letter
  ELSE correct_letter

\* The loop over row.select("ul > li"): the options and the correct letter after it.
RECURSIVE ScanLis(_, _)
ScanLis(acc, items) ==
  IF items = <<>> THEN acc
  ELSE LET li == items[1]
           letter == LetterOf(li)
       IN ScanLis([opts |-> OptsAfter(acc.opts, letter, CleanText(li.en), CleanText(li.ur)),
                   correct_letter |-> CorrectAfter(acc.correct_letter, li, letter)],
                  Tail(items))

\* One record of extract_mcqs.
McqOfRow(row) ==
  LET r == ScanLis([opts |-> EmptyOpts, correct_letter |-> Empty], row.lis)
  IN [id |-> GetAttr(row.id),
      question_en |-> CleanText(row.eng),
      question_ur |-> CleanText(row.urd),
      option_a_en |-> r.opts[<<"A">>].en, option_a_ur |-> r.opts[<<"A">>].ur,
      option_b_en |-> r.opts[<<"B">>].en, option_b_ur |-> r.opts[<<"B">>].ur,
      option_c_en |-> r.opts[<<"C">>].en, option_c_ur |-> r.opts[<<"C">>].ur,
      option_d_en |-> r.opts[<<"D">>].en, option_d_ur |-> r.opts[<<"D">>].ur,
      correct_option |-> r.correct_letter]

\* extract_mcqs(html_text)
extract_mcqs(doc) == [i \in 1..Len(doc) |-> McqOfRow(doc[i])]

----------------------------------------------------------------------------
(* The file system the scripts run in *)

Scripts == {"short", "long", "mcqs"}

\* The input directories that exist, as paths.  Dir holds the variable listing
\* entries; DirD holds one file.
Dir == <<"C", "h", "a", "p", "t", "e", "r", "1", "2", "/", "s">>
DirD == <<"d">>
NoDir == <<"n", "o">>
Bio == <<"b", "i", "o">>
Extra == <<"x">>

HtmlExt == <<".", "h", "t", "m", "l">>

\* The names a directory may hold.
N10 == <<"1", ".", "1", "0", ".", "h", "t", "m", "l">>
N2 == <<"1", ".", "2", ".", "b", "_", "c", ".", "h", "t", "m", "l">>
NUp == <<"i", "n", "t", "r", "o", ".", "H", "T", "M", "L">>
NTxt == <<"1", ".", "1", ".", "t", "x", "t">>
Names == {N10, N2, NUp, NTxt}

Missing == [kind |-> "missing"]
Unreadable == [kind |-> "unreadable"]
File(doc) == [kind |-> "file", doc |-> doc]

\* Documents.  LiOf builds an <li> with one span and one paragraph per language.
LiOf(label, text, classes) ==
  [spans |-> <<label>>, en |-> << <<text>> >>, ur |-> << <<text \o <<"u">> >> >>,
   class |-> classes, thiscorrect |-> <<>>]

RowQ ==
  [id |-> << <<"Q", "1", "2">> >>,
   eng |-> << << <<"i", "s", " ", NBSP, "o", "s">> >> >>,
   urd |-> << << <<NBSP, "k", "y", "a">>, <<" ">>, <<"o", "s", " ">> >> >>,
   lis |-> <<LiOf(<<"(", "B", ")">>, <<"b">>, {}),
             LiOf(<<"(", "A", ")">>, <<"a">>, {"correctAnswer"}),
             LiOf(<<"(", "D", ")">>, <<"d">>, {}),
             LiOf(<<"(", "C", ")">>, <<"c">>, {})>>]

RowN ==
  [id |-> <<>>,
   eng |-> << << <<"w", "h", "y", "?">> >> >>,
   urd |-> <<>>,
   lis |-> <<>>]

DocA == <<RowQ>>
DocB == <<RowN, RowQ>>

\* The listing of DirD.
DListing ==
  [n \in Names |-> IF n = N2 THEN File(DocB) ELSE Missing]

\* The listings Dir may hold.
Listings ==
  {l \in [Names -> {Missing, Unreadable, File(DocA), File(DocB)}] :
     /\ l[N10] # File(DocB)
     /\ l[N2] \in {Unreadable, File(DocA)}
     /\ l[NUp] \in {Missing, File(DocB)}
     /\ l[NTxt] = File(DocA)}

\* os.path.isdir(folder)
IsDir(folder) == folder \in {Dir, DirD}

ListingOf(folder) == IF folder = Dir THEN entries ELSE DListing

\* os.listdir(folder)
ListDir(folder) == {n \in Names : ListingOf(folder)[n].kind # "missing"}

\* open(file_path, "r", encoding="utf-8") and fp.read() raise for this entry.
ReadFails(entry) == entry.kind # "file"

----------------------------------------------------------------------------
(* The CSV file: [exists, lines]; a line is the header or a row *)

Absent == [exists |-> FALSE, lines |-> <<>>]
EmptyFile == [exists |-> TRUE, lines |-> <<>>]

PlainFields == <<"chapter_no", "section_no", "section_name", "id", "english", "urdu">>
McqFields ==
  <<"chapter_no", "section_no", "section_name", "id", "question_en", "question_ur",
    "option_a_en", "option_a_ur", "option_b_en", "option_b_ur",
    "option_c_en", "option_c_ur", "option_d_en", "option_d_ur", "correct_option">>

\* fieldnames
Fieldnames(script) == IF script = "mcqs" THEN McqFields ELSE PlainFields

\* writer.writeheader()
HeaderLine(script) == [kind |-> "header", cols |-> Fieldnames(script)]

\* csv writes None as the empty string.
Cell(v) == IF v = NoneVal THEN Empty ELSE v

\* writer.writerow({...}): the values in the order of fieldnames.
RowLine(script, chapter_no, sec, r) ==
  [kind |-> "row",
   vals |-> [i \in 1..Len(Fieldnames(script)) |->
               LET f == Fieldnames(script)[i]
               IN IF f = "chapter_no" THEN chapter_no
                  ELSE IF f = "section_no" THEN sec.section_no
                  ELSE IF f = "section_name" THEN sec.section_name
                  ELSE Cell(r[f])]]

\* The extractor each script calls.
Extract(script, doc) ==
  IF script = "mcqs" THEN extract_mcqs(doc) ELSE extract_questions(doc)

----------------------------------------------------------------------------
(* main().  argv holds the positional arguments, sys.argv[1:].  Every script *)
(* is run with the book name Bio, so csv[script] is the one file it opens.  *)

\* not (len(sys.argv) < 3)
UsageOk(argv) == Len(argv) >= 2

\* sys.argv[1].rstrip(r"\/")
Folder(argv) == RStripChars(argv[1], {"\\", "/"})

\* DirOk without the check.
DirOkAlways(folder) == TRUE

\* os.path.isdir(folder), on which main() goes on or exits
DirOk(folder) == IsDir(folder)

\* name.lower().endswith(".html")
IsHtml(name) == EndsWith(Lower(name), HtmlExt)

\* SortedNames in the reverse order.
SortedNamesReversed(folder) ==
  LET s == Sorted(ListDir(folder))
  IN [i \in 1..Len(s) |-> s[Len(s) + 1 - i]]

\* sorted(os.listdir(folder))
SortedNames(folder) == Sorted(ListDir(folder))

\* OpenAppend opening with "w": the file is emptied.
OpenTruncate(file) == [exists |-> TRUE, lines |-> <<>>]

\* open(csv_path, "a"): the file exists from now on, with what it held.
OpenAppend(file) == [exists |-> TRUE, lines |-> file.lines]

\* NeedsHeader without the test of the size.
NeedsHeaderNewOnly(before, opened) == ~before.exists

\* not file_exists or os.path.getsize(csv_path) == 0, file_exists taken before
\* the open and the size after it
NeedsHeader(before, opened) == ~before.exists \/ Len(opened.lines) = 0

\* The rows one file gives: a row line per record, with the file it came from.
RowsOfFile(script, chapter_no, name, doc) ==
  LET recs == Extract(script, doc)
      sec == parse_section_parts(name)
  IN [i \in 1..Len(recs) |->
        [line |-> RowLine(script, chapter_no, sec, recs[i]), origin |-> name]]

\* ProcessFiles leaving the loop at the first file that cannot be read.
RECURSIVE ProcessFilesAbort(_, _, _, _)
ProcessFilesAbort(script, chapter_no, folder, names) ==
  IF names = <<>> THEN <<>>
  ELSE LET name == names[1]
           entry == ListingOf(folder)[name]
       IN IF ~IsHtml(name) THEN ProcessFilesAbort(script, chapter_no, folder, Tail(names))
          ELSE IF ReadFails(entry) THEN <<>>
          ELSE RowsOfFile(script, chapter_no, name, entry.doc)
               \o ProcessFilesAbort(script, chapter_no, folder, Tail(names))

\* The loop over the sorted names: what it writes, in order.
RECURSIVE ProcessFiles(_, _, _, _)
ProcessFiles(script, chapter_no, folder, names) ==
  IF names = <<>> THEN <<>>
  ELSE LET name == names[1]
           entry == ListingOf(folder)[name]
       IN IF ~IsHtml(name) THEN ProcessFiles(script, chapter_no, folder, Tail(names))
          ELSE IF ReadFails(entry)
          THEN ProcessFiles(script, chapter_no, folder, Tail(names))
          ELSE RowsOfFile(script, chapter_no, name, entry.doc)
               \o ProcessFiles(script, chapter_no, folder, Tail(names))

\* WriteRows skipping the rows the file already holds.
WriteRowsDedup(lines, written) ==
  lines \o [i \in 1..Len(SelectSeq(written, LAMBDA w :
                              \A j \in 1..Len(lines) : lines[j] # w.line)) |->
             SelectSeq(written, LAMBDA w :
                              \A j \in 1..Len(lines) : lines[j] # w.line)[i].line]

\* writer.writerow for each of them: the file grows at its end.
WriteRows(lines, written) == lines \o [i \in 1..Len(written) |-> written[i].line]

NoRun ==
  [script |-> "none", argv |-> <<>>, status |-> 0, pre |-> Absent,
   header |-> FALSE, wrote |-> <<>>]

\* sys.exit(1) before anything is written
ExitOne(script, argv) ==
  /\ last' = [script |-> script, argv |-> argv, status |-> 1, pre |-> csv[script],
              header |-> FALSE, wrote |-> <<>>]
  /\ runs' = runs + 1
  /\ UNCHANGED <<entries, csv, outDirs, fresh, ran, lis, para, out>>

\* main() of one script
Main(script, argv) ==
  /\ runs < MaxRuns
  /\ \/ /\ ~UsageOk(argv)
        /\ ExitOne(script, argv)
     \/ /\ UsageOk(argv)
        /\ ~DirOk(Folder(argv))
        /\ ExitOne(script, argv)
     \/ /\ UsageOk(argv)
        /\ DirOk(Folder(argv))
        /\ LET folder == Folder(argv)
               chapter_no == ChapterNo(folder)
               opened == OpenAppend(csv[script])
               header == NeedsHeader(csv[script], opened)
               headed == IF header THEN Append(opened.lines, HeaderLine(script))
                         ELSE opened.lines
               written == ProcessFiles(script, chapter_no, folder, SortedNames(folder))
           IN /\ outDirs' = outDirs \cup {script}
              /\ csv' = [csv EXCEPT ![script] =
                           [exists |-> TRUE, lines |-> WriteRows(headed, written)]]
                          /\ last' = [script |-> script, argv |-> argv, status |-> 0,
                          pre |-> csv[script], header |-> header, wrote |-> written]
              /\ ran' = ran \cup {script}
              /\ runs' = runs + 1
              /\ UNCHANGED <<entries, fresh, lis, para, out>>

\* The command lines tried.
Argvs ==
  {<<Dir>>,
   <<Dir \o <<"/">>, Bio>>,
   <<DirD, Bio>>,
   <<NoDir \o <<"\\">>, Bio>>,
   <<Dir, Bio, Extra>>}

RunShort == \E argv \in Argvs : Main("short", argv)
RunLong == \E argv \in Argvs : Main("long", argv)
RunMcqs == \E argv \in Argvs : Main("mcqs", argv)

NotRun == [ran |-> FALSE]

\* A CSV file left by an earlier run of the script on DirD.
EarlierFile(script) ==
  [exists |-> TRUE,
   lines |-> WriteRows(<<HeaderLine(script)>>,
                       RowsOfFile(script, Empty, N2, DocA))]

Init ==
  /\ entries \in Listings
  /\ \E k \in {"absent", "empty", "earlier"} :
        csv = [s \in Scripts |->
                 IF k = "absent" THEN Absent
                 ELSE IF k = "empty" THEN EmptyFile
                 ELSE EarlierFile(s)]
  /\ outDirs = {s \in Scripts : csv[s].exists}
  /\ fresh = [s \in Scripts |-> csv[s].lines = <<>>]
  /\ ran = {}
  /\ last = NoRun
  /\ runs = 0
  /\ lis = <<>>
  /\ para = <<>>
  /\ out = NotRun

Next == RunShort \/ RunLong \/ RunMcqs

Spec == Init /\ [][Next]_vars

----------------------------------------------------------------------------
(* ExtractSpec: extract_mcqs on one row whose <li> children are built up    *)
(* from LiChoices.                                                          *)

LabelA == <<"(", "A", ")">>
LabelB == <<"(", "B", ")">>
LabelC == <<"(", "C", ")">>
LabelD == <<"(", "D", ")">>
LabelE == <<"(", "E", ")">>
Marked == {"correctAnswer"}

\* An <li> without a span: only its thiscorrect attribute can name the answer.
LiBare(text, classes, thiscorrect) ==
  [spans |-> <<>>, en |-> << <<text>> >>, ur |-> << <<text \o <<"u">> >> >>,
   class |-> classes, thiscorrect |-> thiscorrect]

LiChoices ==
  {LiOf(LabelA, <<"a">>, {}), LiOf(LabelB, <<"b">>, {}),
   LiOf(LabelC, <<"c">>, {}), LiOf(LabelD, <<"d">>, {}),
   LiOf(LabelB, <<"b">>, Marked), LiOf(LabelD, <<"d">>, Marked),
   LiOf(LabelE, <<"e">>, Marked),
   LiBare(<<"f">>, Marked, << <<"1", "-", "(", "c", ")", "-", "(", "A", ")">> >>),
   LiBare(<<"g">>, Marked, <<>>),
   LiBare(<<"h">>, {"odd"}, << <<"2", "-", "(", "A", ")">> >>)}

RowOfLis(items) ==
  [id |-> << <<"Q", "1">> >>, eng |-> << << <<"q">> >> >>, urd |-> <<>>, lis |-> items]

\* The variables the scripts use, left alone by the extractor specifications.
ScriptVars == <<entries, csv, outDirs, fresh, last, runs, ran>>

ScriptVarsIdle ==
  /\ entries = DListing
  /\ csv = [s \in Scripts |-> Absent]
  /\ outDirs = {}
  /\ fresh = [s \in Scripts |-> TRUE]
  /\ ran = {}
  /\ last = NoRun
  /\ runs = 0

ExtractInit ==
  /\ ScriptVarsIdle
  /\ lis = <<>>
  /\ para = <<>>
  /\ out = NotRun

\* The markup gets one more <li>.
AddItem ==
  /\ out = NotRun
  /\ Len(lis) < MaxItems
  /\ \E li \in LiChoices : lis' = Append(lis, li)
  /\ UNCHANGED <<ScriptVars, para, out>>

\* extract_mcqs is called on the markup.
ExtractRow ==
  /\ out = NotRun
  /\ out' = [ran |-> TRUE, rec |-> extract_mcqs(<<RowOfLis(lis)>>)[1]]
  /\ UNCHANGED <<ScriptVars, para, lis>>

ExtractNext == AddItem \/ ExtractRow

ExtractSpec == ExtractInit /\ [][ExtractNext]_vars

----------------------------------------------------------------------------
(* TextSpec: both extractors on a row whose paragraphs all have the text    *)
(* nodes para, built up character by character.                             *)

TextChars == {"w", " ", NBSP}

CharsOf(p) == IF p = <<>> THEN 0 ELSE Len(Join(p, <<>>))

RowOfPara(p) ==
  [id |-> <<>>, eng |-> <<p>>, urd |-> <<p>>,
   lis |-> <<[spans |-> <<LabelA>>, en |-> <<p>>, ur |-> <<p>>,
              class |-> {}, thiscorrect |-> <<>>]>>]

TextInit ==
  /\ ScriptVarsIdle
  /\ lis = <<>>
  /\ para = <<>>
  /\ out = NotRun

\* The paragraph gets one more text node, after an inline element.
NewNode ==
  /\ out = NotRun
  /\ Len(para) < MaxNodes
  /\ CharsOf(para) < MaxChars
  /\ \E c \in TextChars : para' = Append(para, <<c>>)
  /\ UNCHANGED <<ScriptVars, lis, out>>

\* The last text node gets one more character.
AddChar ==
  /\ out = NotRun
  /\ para # <<>>
  /\ CharsOf(para) < MaxChars
  /\ \E c \in TextChars : para' = [para EXCEPT ![Len(para)] = Append(@, c)]
  /\ UNCHANGED <<ScriptVars, lis, out>>

\* extract_questions and extract_mcqs are called on the markup.
ExtractText ==
  /\ out = NotRun
  /\ out' = [ran |-> TRUE,
             plain |-> extract_questions(<<RowOfPara(para)>>)[1],
             mcq |-> extract_mcqs(<<RowOfPara(para)>>)[1]]
  /\ UNCHANGED <<ScriptVars, lis, para>>

TextNext == NewNode \/ AddChar \/ ExtractText

TextSpec == TextInit /\ [][TextNext]_vars

----------------------------------------------------------------------------
(* Properties of the scripts, under Spec *)

\* What the latest invocation was given and did.
LastRan == last.script \in Scripts
LastOk == LastRan /\ last.status = 0
LastFolder == RStripChars(last.argv[1], {"\\", "/"})
LastListing == IF LastFolder = Dir THEN entries ELSE DListing
LinesOf(written) == [i \in 1..Len(written) |-> written[i].line]
IsPrefix(a, b) == Len(a) <= Len(b) /\ SubSeq(b, 1, Len(a)) = a
HeaderCount(lines) == Cardinality({i \in 1..Len(lines) : lines[i].kind = "header"})
DataRows(lines) == Cardinality({i \in 1..Len(lines) : lines[i].kind = "row"})
RowsIn(lines) == SelectSeq(lines, LAMBDA l : l.kind = "row")

\* C1: a CSV that was absent or empty at first holds the header exactly once,
\* as its first line, once its script has run to its end (even when the runs
\* wrote no row); a run on a file that exists and is not empty writes no
\* header: the file is what it was, followed by the rows of the run.
C1_HeaderOnceAndFirst ==
  /\ \A s \in ran :
        fresh[s] => /\ csv[s].lines # <<>>
                    /\ csv[s].lines[1] = HeaderLine(s)
                    /\ HeaderCount(csv[s].lines) = 1
  /\ (LastOk /\ last.pre.lines # <<>>) =>
        csv[last.script].lines = last.pre.lines \o LinesOf(last.wrote)

\* A script has run twice to its end on a CSV that was empty or absent, the
\* second time on the file the first run left.
C1_Witness ==
  /\ LastOk
  /\ fresh[last.script]
  /\ last.pre.lines # <<>>
  /\ runs = 2

\* C2: whatever a step does, every CSV that existed still exists and what it
\* held is a prefix of what it holds.
C2_AppendOnly ==
  [][\A s \in Scripts :
       /\ csv[s].exists => csv'[s].exists
       /\ IsPrefix(csv[s].lines, csv'[s].lines)]_vars

\* A run has appended rows to a file that held lines, from a directory with a
\* file that cannot be read.
C2_Witness ==
  /\ LastOk
  /\ last.pre.lines # <<>>
  /\ Len(csv[last.script].lines) > Len(last.pre.lines)
  /\ LastFolder = Dir
  /\ \E n \in Names : entries[n] = Unreadable

\* C3: a run of the same script with the same arguments as the run before it
\* (the input directory does not change) appends the data rows that run
\* appended, and doubles the number of data rows when the file was absent or
\* empty before the first of the two.
C3_RerunAppendsSameRows ==
  [][(/\ runs' = runs + 1
      /\ last.script \in Scripts
      /\ last.status = 0
      /\ last'.status = 0
      /\ last'.script = last.script
      /\ last'.argv = last.argv)
     => LET s == last.script
            first == RowsIn(SubSeq(csv[s].lines, Len(last.pre.lines) + 1,
                                   Len(csv[s].lines)))
            second == SubSeq(csv'[s].lines, Len(csv[s].lines) + 1, Len(csv'[s].lines))
        IN /\ IsPrefix(csv[s].lines, csv'[s].lines)
           /\ second = first
           /\ last.pre.lines = <<>> =>
                 DataRows(csv'[s].lines) = 2 * DataRows(csv[s].lines)]_vars

\* The second of two runs on DirD (one command line names it) has appended,
\* to a file that was absent or empty, the rows the first had appended.
C3_Witness ==
  /\ LastOk
  /\ runs = 2
  /\ fresh[last.script]
  /\ last.argv = <<DirD, Bio>>
  /\ last.wrote # <<>>
  /\ last.pre.lines = <<HeaderLine(last.script)>> \o LinesOf(last.wrote)
  /\ DataRows(csv[last.script].lines) = 2 * Len(last.wrote)

\* os.path.isdir of the path as given, on POSIX: trailing slashes do not matter,
\* a trailing backslash is part of the name.
IsDirAsGiven(path) == RStripChars(path, {"/"}) \in {Dir, DirD}

\* C4 as stated: an invocation with other than two positional arguments, or
\* with an input path that is no existing directory, exits non-zero and leaves
\* the output directories and the CSV files as they were.
C4_AnyWrongUsageIsFatal ==
  [][(/\ runs' = runs + 1
      /\ \/ Len(last'.argv) # 2
         \/ ~IsDirAsGiven(last'.argv[1]))
     => /\ last'.status # 0
        /\ csv' = csv
        /\ outDirs' = outDirs]_vars

\* C4, amended: an invocation with fewer than two positional arguments, or
\* whose input path without its trailing slashes and backslashes is no existing
\* directory, exits non-zero and leaves the output directories and the CSV
\* files as they were.
C4_UsageErrorIsFatal ==
  [][(/\ runs' = runs + 1
      /\ \/ Len(last'.argv) < 2
         \/ RStripChars(last'.argv[1], {"\\", "/"}) \notin {Dir, DirD})
     => /\ last'.status # 0
        /\ csv' = csv
        /\ outDirs' = outDirs]_vars

\* A script given a path that is no directory has exited with status 1, its
\* output directory and its CSV still missing.
C4_Witness ==
  /\ LastRan
  /\ last.argv = <<NoDir \o <<"\\">>, Bio>>
  /\ last.status = 1
  /\ ~csv[last.script].exists
  /\ last.script \notin outDirs

\* The rows of `written` that came from file n, as lines.
FromFile(written, n) == LinesOf(SelectSeq(written, LAMBDA w : w.origin = n))

\* The lines the records of one file make, by hand: the chapter, the two
\* section fields, then the fields of the record in the order of the header.
ExpectedLines(script, folder, n, doc) ==
  LET recs == IF script = "mcqs" THEN extract_mcqs(doc) ELSE extract_questions(doc)
      sec == parse_section_parts(n)
      cols == IF script = "mcqs" THEN McqFields ELSE PlainFields
  IN [k \in 1..Len(recs) |->
        [kind |-> "row",
         vals |-> <<ChapterNo(folder), sec.section_no, sec.section_name>>
                  \o [c \in 1..(Len(cols) - 3) |->
                        IF recs[k][cols[c + 3]] = NoneVal THEN <<>>
                        ELSE recs[k][cols[c + 3]]]]]

\* C5: a run with usable arguments ends with status 0 whichever files cannot
\* be read; a file that cannot be read gives no row; every HTML file that can
\* be read has all its records among the rows appended, in their order.
C5_ReadErrorsAreSkipped ==
  (/\ LastRan
   /\ Len(last.argv) >= 2
   /\ LastFolder \in {Dir, DirD})
  => /\ last.status = 0
     /\ IsPrefix(last.pre.lines, csv[last.script].lines)
     /\ RowsIn(SubSeq(csv[last.script].lines, Len(last.pre.lines) + 1,
                      Len(csv[last.script].lines))) = LinesOf(last.wrote)
     /\ \A n \in Names :
           /\ LastListing[n].kind = "unreadable" => FromFile(last.wrote, n) = <<>>
           /\ (LastListing[n].kind = "file" /\ EndsWith(Lower(n), HtmlExt))
                 => FromFile(last.wrote, n)
                      = ExpectedLines(last.script, LastFolder, n, LastListing[n].doc)

\* A run has ended with status 0 and appended the rows of 1.2.b_c.html, which
\* sorts after 1.10.html, which could not be read.
C5_Witness ==
  /\ LastOk
  /\ LastFolder = Dir
  /\ entries[N10] = Unreadable
  /\ entries[N2] = File(DocA)
  /\ FromFile(last.wrote, N2) # <<>>

\* C10: the rows a run appends are, file by file in the lexical order of the
\* names, the records of each HTML file of the directory in document order;
\* other entries give no row; every row carries the chapter of the run and the
\* section number and name of the file its record came from.
C10_RowsFollowSortedFiles ==
  LastOk =>
    LET w == last.wrote
        lines == csv[last.script].lines
        html == {n \in Names : /\ LastListing[n].kind = "file"
                               /\ EndsWith(Lower(n), HtmlExt)}
    IN /\ RowsIn(SubSeq(lines, Len(last.pre.lines) + 1, Len(lines))) = LinesOf(w)
       /\ \A i \in 1..Len(w) : w[i].origin \in html
       /\ \A i, j \in 1..Len(w) :
             i < j => w[i].origin = w[j].origin \/ StrLess(w[i].origin, w[j].origin)
       /\ \A n \in html :
             FromFile(w, n) = ExpectedLines(last.script, LastFolder, n, LastListing[n].doc)
       /\ \A i \in 1..Len(w) :
             /\ w[i].line.vals[1] = ChapterNo(LastFolder)
             /\ w[i].line.vals[2] = parse_section_parts(w[i].origin).section_no
             /\ w[i].line.vals[3] = parse_section_parts(w[i].origin).section_name

\* A run on a directory that also holds 1.1.txt has appended rows of 1.2.b_c.html
\* and then rows of intro.HTML, each with its own section fields.
C10_Witness ==
  /\ LastOk
  /\ LastFolder = Dir
  /\ entries[NTxt].kind = "file"
  /\ \E i, j \in 1..Len(last.wrote) :
        /\ i < j
        /\ last.wrote[i].origin = N2
        /\ last.wrote[j].origin = NUp
        /\ last.wrote[i].line.vals[2] # last.wrote[j].line.vals[2]

----------------------------------------------------------------------------
(* Properties of extract_mcqs, under ExtractSpec *)

IsMarked(li) == "correctAnswer" \in li.class
MarkedAt == {i \in 1..Len(lis) : IsMarked(lis[i])}

\* C6 as stated: correct_option of a record is "A", "B", "C", "D" or "".
C6_CorrectOptionIsLetterOrEmpty ==
  out.ran => out.rec.correct_option \in {<<"A">>, <<"B">>, <<"C">>, <<"D">>, <<>>}

\* The field of a record that holds the text of option X in a language.
OptionField(rec, letter, lang) ==
  CASE letter = <<"A">> -> IF lang = "en" THEN rec.option_a_en ELSE rec.option_a_ur
    [] letter = <<"B">> -> IF lang = "en" THEN rec.option_b_en ELSE rec.option_b_ur
    [] letter = <<"C">> -> IF lang = "en" THEN rec.option_c_en ELSE rec.option_c_ur
    [] letter = <<"D">> -> IF lang = "en" THEN rec.option_d_en ELSE rec.option_d_ur

\* The row has four items with one span each, labelled (A), (B), (C), (D) in
\* some order, and exactly one of them has the class correctAnswer.
FourLabelledOneMarked ==
  /\ Len(lis) = 4
  /\ \A i \in 1..4 : Len(lis[i].spans) = 1
  /\ {lis[i].spans[1] : i \in 1..4} = {LabelA, LabelB, LabelC, LabelD}
  /\ Cardinality(MarkedAt) = 1

\* C7: for such a row, in whatever order the items come, option_x_en and
\* option_x_ur hold the text of the item labelled (X), and correct_option is
\* the letter of the marked item.
C7_OptionsFollowLabels ==
  (out.ran /\ FourLabelledOneMarked) =>
     /\ \A i \in 1..4 :
           LET x == <<lis[i].spans[1][2]>>
           IN /\ OptionField(out.rec, x, "en") = lis[i].en[1][1]
              /\ OptionField(out.rec, x, "ur") = lis[i].ur[1][1]
     /\ \A i \in MarkedAt : out.rec.correct_option = <<lis[i].spans[1][2]>>

\* extract_mcqs has run on (C), (A), (D), (B) with (D) marked.
C7_Witness ==
  /\ out.ran
  /\ FourLabelledOneMarked
  /\ lis[1].spans[1] = LabelC
  /\ lis[2].spans[1] = LabelA
  /\ lis[3].spans[1] = LabelD
  /\ IsMarked(lis[3])
  /\ out.rec.option_a_en = <<"a">>

\* What the rule for the correct answer gives for one marked item alone: the
\* letter of its label if that is not empty, else the letter in its
\* thiscorrect attribute, else "".
RuleAlone(li) ==
  LET label == IF li.spans = <<>> THEN <<>> ELSE li.spans[1]
      inner == SelectSeq(label, LAMBDA c : c \notin {"(", ")", " "})
      tc == IF li.thiscorrect = <<>> THEN <<>> ELSE li.thiscorrect[1]
      at == {i \in 1..(Len(tc) - 3) :
               /\ <<tc[i], tc[i + 1], tc[i + 3]>> = <<"-", "(", ")">>
               /\ tc[i + 2] \in {"A", "B", "C", "D", "a", "b", "c", "d"}}
  IN IF inner # <<>> THEN Upper(inner)
     ELSE IF at # {} THEN Upper(<<tc[Min(at) + 2]>>)
     ELSE <<>>

\* C9 as stated: with marked items in the row, correct_option is what the rule
\* gives for the last marked item alone.
C9_LastMarkedWins ==
  (out.ran /\ MarkedAt # {}) => out.rec.correct_option = RuleAlone(lis[Max(MarkedAt)])

\* C9, amended: correct_option is what the rule gives for the last marked item
\* for which it gives a letter, and "" when it gives none for any marked item.
C9_LastMarkedWithLetterWins ==
  out.ran =>
     LET giving == {i \in MarkedAt : RuleAlone(lis[i]) # <<>>}
     IN out.rec.correct_option =
          IF giving = {} THEN <<>> ELSE RuleAlone(lis[Max(giving)])

\* extract_mcqs has run on a row where a marked item with a letter is followed
\* by a marked item with another letter and then by a marked item with none.
C9_Witness ==
  /\ out.ran
  /\ \E i, j, k \in MarkedAt :
        /\ i < j /\ j < k
        /\ k = Max(MarkedAt)
        /\ RuleAlone(lis[i]) # <<>>
        /\ RuleAlone(lis[j]) # <<>>
        /\ RuleAlone(lis[i]) # RuleAlone(lis[j])
        /\ RuleAlone(lis[k]) = <<>>
        /\ out.rec.correct_option = RuleAlone(lis[j])

----------------------------------------------------------------------------
(* Properties of the extracted text, under TextSpec *)

\* The text fields of the two records.
TextFields ==
  {out.plain.english, out.plain.urdu, out.mcq.question_en, out.mcq.question_ur,
   out.mcq.option_a_en, out.mcq.option_a_ur, out.mcq.option_b_en, out.mcq.option_b_ur,
   out.mcq.option_c_en, out.mcq.option_c_ur, out.mcq.option_d_en, out.mcq.option_d_ur}

White == {" ", "\t", "\n", NBSP}
NoNbsp(s) == \A i \in 1..Len(s) : s[i] # NBSP
NoEdgeSpace(s) == s = <<>> \/ (s[1] \notin White /\ s[Len(s)] \notin White)
NoSpaceRun(s) == \A i \in 1..(Len(s) - 1) : ~(s[i] \in White /\ s[i + 1] \in White)

\* A text node without the white space at its two ends.
RECURSIVE TrimLeft(_)
TrimLeft(s) == IF s # <<>> /\ Head(s) \in White THEN TrimLeft(Tail(s)) ELSE s
RECURSIVE TrimRight(_)
TrimRight(s) ==
  IF s # <<>> /\ s[Len(s)] \in White THEN TrimRight(SubSeq(s, 1, Len(s) - 1)) ELSE s
Trim(s) == TrimRight(TrimLeft(s))

\* The trimmed text nodes that are not empty, U+00A0 written as a space, with
\* one space between two of them.
RECURSIVE NodesJoined(_)
NodesJoined(p) ==
  IF p = <<>> THEN <<>>
  ELSE LET node == [i \in 1..Len(Trim(p[1])) |->
                      IF Trim(p[1])[i] = NBSP THEN " " ELSE Trim(p[1])[i]]
           rest == NodesJoined(Tail(p))
       IN IF node = <<>> THEN rest
          ELSE IF rest = <<>> THEN node
          ELSE node \o <<" ">> \o rest

====
